---- MODULE Spec2Model ----
(***************************************************************************)
(* Model of the dca loss family (src/dca/loss.py) and of the output-head   *)
(* composition of the autoencoder variants (src/dca/network.py).           *)
(*                                                                         *)
(* Tensors are flattened to sequences.  An input element (a count, a       *)
(* predicted mean, a dispersion, ...) is a record [k, v]: k = "nan" is the *)
(* missing sentinel, k = "fin" a finite number v.  A loss value is a       *)
(* record [k, num, den]: NaN, +infinity, or the finite quotient num/den    *)
(* where num is a formal sum (a bag) of likelihood terms.  A term names    *)
(* the closed-form expression of the source and the values that entered    *)
(* it, so two loss values are equal exactly when the same terms were       *)
(* summed and divided by the same count.  The stabiliser eps = 1e-10 of    *)
(* loss.py:65 is below the resolution of the terms: log(1+eps) is 0.       *)
(***************************************************************************)
EXTENDS Bags, FiniteSets, Integers, Sequences, TLC

\* ---- bounds of the model ------------------------------------------------
MaxLen == 2        \* elements of a (flattened) batch
MaxCount == 1      \* largest observed count

\* ---- program constants --------------------------------------------------
ThetaClip == 1000000      \* tf.minimum(theta, 1e6)
DefaultTheta == 1000000   \* def loss(..., theta=1e6)
\* |x| from which float32 exp(-x) is 0 and log(1 + exp(-x)) is 0
GateSat == 104

\* ---- values -------------------------------------------------------------
NaN == [k |-> "nan", v |-> 0]
Num(n) == [k |-> "fin", v |-> n]

LNaN == [k |-> "nan", num |-> EmptyBag, den |-> 1]
LInf == [k |-> "inf", num |-> EmptyBag, den |-> 1]
Fin(b) == [k |-> "fin", num |-> b, den |-> 1]
LZero == Fin(EmptyBag)
Term(t) == Fin(SetToBag({t}))

IsLoss(x) == "num" \in DOMAIN x
is_nan(x) == x.k = "nan"
zeros_like(x) == IF IsLoss(x) THEN LZero ELSE Num(0)
inf_like(x) == IF IsLoss(x) THEN LInf ELSE [k |-> "inf", v |-> 0]

Range(s) == {s[i] : i \in DOMAIN s}
fill(x, n) == [i \in 1..n |-> x]

\* elementwise product of two input values (NaN propagates)
mul(a, b) == IF is_nan(a) \/ is_nan(b) THEN NaN ELSE Num(a.v * b.v)
\* tf.minimum(a, c) for a finite constant c
minimum(a, c) == IF is_nan(a) THEN NaN ELSE Num(IF a.v < c THEN a.v ELSE c)
\* t1 + t2 on per-element loss values (den = 1); only +infinity occurs
add(a, b) ==
    IF is_nan(a) \/ is_nan(b) THEN LNaN
    ELSE IF a.k = "inf" \/ b.k = "inf" THEN LInf
    ELSE Fin(a.num (+) b.num)

RECURSIVE GCD(_, _)
GCD(a, b) == IF b = 0 THEN a ELSE GCD(b, a % b)

RECURSIVE BagGCD(_, _, _)
BagGCD(b, S, g) ==
    IF S = {} THEN g
    ELSE LET a == CHOOSE x \in S : TRUE
         IN BagGCD(b, S \ {a}, GCD(g, b[a]))

\* tf.divide(s, n) of a reduced sum by a positive count, in lowest terms
divide(s, n) ==
    IF s.k # "fin" THEN s
    ELSE IF DOMAIN s.num = {} THEN LZero
    ELSE LET g == BagGCD(s.num, DOMAIN s.num, n)
         IN [k |-> "fin", num |-> [a \in DOMAIN s.num |-> s.num[a] \div g], den |-> n \div g]

RECURSIVE SumFrom(_, _)
SumFrom(x, i) ==
    IF i > Len(x) THEN LZero ELSE add(x[i], SumFrom(x, i + 1))

\* tf.reduce_sum over all elements
reduce_sum(x) == SumFrom(x, 1)
\* tf.reduce_mean over all elements
reduce_mean(x) == divide(reduce_sum(x), Len(x))

\* ---- numeric utilities (loss.py:6-20) -----------------------------------
_nan2zero(x) == [i \in DOMAIN x |-> IF is_nan(x[i]) THEN zeros_like(x[i]) ELSE x[i]]

\* a mapping that leaves NaN in place
_nan_kept(x) == x

_nan2inf(x) == [i \in DOMAIN x |-> IF is_nan(x[i]) THEN inf_like(x[i]) ELSE x[i]]

\* a count of all entries, missing or not
_nelem_total(x) == Len(x)

\* a count without the guard against an all-missing input
_nelem_unguarded(x) == Cardinality({i \in DOMAIN x : ~is_nan(x[i])})

_nelem(x) ==
    LET nelem == Cardinality({i \in DOMAIN x : ~is_nan(x[i])})
    IN IF nelem = 0 THEN 1 ELSE nelem

\* the masked sum, not divided by the count
_reduce_total(x) == reduce_sum(_nan2zero(x))

_reduce_mean(x) ==
    LET nelem == _nelem(x)
        z == _nan2zero(x)
    IN divide(reduce_sum(z), nelem)

\* ---- what a call returns --------------------------------------------------
Scalar(v) == [kind |-> "scalar", val |-> v]
Tensor(t) == [kind |-> "tensor", val |-> t]
Raise == [kind |-> "raise"]

\* ---- Poisson (loss.py:33-48) ----------------------------------------------
\* y_pred - y_true*log(y_pred+1e-10) + lgamma(y_true+1.0), one element
PoissonTerm(y, lam) ==
    IF is_nan(y) \/ is_nan(lam) THEN LNaN ELSE Term(<<"poisson", y.v, lam.v>>)

\* per-element values that leave the missing positions out of the sum
poisson_ret_observed(yt, yp) ==
    [i \in DOMAIN yt |-> IF is_nan(yt[i]) THEN LZero ELSE PoissonTerm(yt[i], yp[i])]

\* ret, the per-element values before the reduction
poisson_ret(yt, yp) ==
    LET y == _nan2zero(yt)
    IN [i \in DOMAIN y |-> PoissonTerm(y[i], yp[i])]

poisson_loss(yt, yp) ==
    LET nelem == _nelem(yt)
        r == poisson_ret(yt, yp)
    IN Scalar(divide(reduce_sum(r), nelem))

\* ---- Negative binomial (loss.py:60-114) -----------------------------------
\* t1 = lgamma(theta+eps) + lgamma(y+1) - lgamma(y+theta+eps); it is 0 at y = 0
T1(y, th) ==
    IF is_nan(y) \/ is_nan(th) THEN LNaN
    ELSE IF y.v = 0 THEN LZero
    ELSE Term(<<"t1", y.v, th.v>>)

\* t2 = (theta+y)*log(1+mu/(theta+eps)) + y*(log(theta+eps) - log(mu+eps))
T2(y, mu, th) ==
    IF is_nan(y) \/ is_nan(mu) \/ is_nan(th) THEN LNaN
    ELSE Term(<<"t2", y.v, mu.v, th.v>>)

NB_init(theta, masking, scale_factor, debug) ==
    [cls |-> "NB", scale_factor |-> scale_factor, debug |-> debug,
     masking |-> masking, theta |-> theta]

\* y_pred * scale_factor, t1 and t2 of one evaluation
NB_terms(self, yt, yp, theta) ==
    LET pred == [i \in DOMAIN yp |-> mul(yp[i], self.scale_factor[i])]
        y == IF self.masking THEN _nan2zero(yt) ELSE yt
        th == [i \in DOMAIN theta |-> minimum(theta[i], ThetaClip)]
    IN [pred |-> pred,
        t1 |-> [i \in DOMAIN y |-> T1(y[i], th[i])],
        t2 |-> [i \in DOMAIN y |-> T2(y[i], pred[i], th[i])]]

\* final = t1 + t2, before _nan2inf
NB_final(self, yt, yp, theta) ==
    LET e == NB_terms(self, yt, yp, theta)
    IN [i \in DOMAIN yt |-> add(e.t1[i], e.t2[i])]

NB_loss(self, yt, yp, mean, theta) ==
    LET e == NB_terms(self, yt, yp, theta)
        finite == \A i \in DOMAIN yt :
                      ~is_nan(e.pred[i]) /\ ~is_nan(e.t1[i]) /\ ~is_nan(e.t2[i])
        final == _nan2inf(NB_final(self, yt, yp, theta))
    IN IF self.debug /\ ~finite THEN Raise
       ELSE IF mean
            THEN IF self.masking
                 THEN Scalar(divide(reduce_sum(final), _nelem(yt)))
                 ELSE Scalar(reduce_mean(final))
            ELSE Tensor(final)

\* the call keras makes: loss(y_true, y_pred), theta left at its default
NB_call(self, yt, yp, mean) ==
    NB_loss(self, yt, yp, mean, fill(Num(DefaultTheta), Len(yt)))

\* ---- Zero-inflated negative binomial (loss.py:116-156) --------------------
\* -log(1.0 - pi + eps); it is 0 at pi = 0
NegLog1mPi(pi) == IF pi.v = 0 THEN LZero ELSE Term(<<"nlog1mpi", pi.v>>)

\* -log(pi + (1-pi)*pow(theta/(theta+mu+eps), theta) + eps); at pi = 0 this is
\* theta*log(1 + mu/theta), the value of t2 at y = 0
ZeroCase(pi, mu, th) ==
    IF is_nan(mu) \/ is_nan(th) THEN LNaN
    ELSE IF pi.v = 0 THEN T2(Num(0), mu, th)
    ELSE Term(<<"zero", pi.v, mu.v, th.v, 0>>)

\* a ridge term that is never added
Ridge_dropped(lambda, pi) == LZero

\* ridge_lambda * square(pi)
Ridge(lambda, pi) ==
    IF lambda = 0 \/ pi.v = 0 THEN LZero ELSE Term(<<"ridge", lambda, pi.v>>)

\* a comparison that takes the missing sentinel for a zero
less_or_missing(y) == is_nan(y) \/ y.v < 1

\* tf.less(y, 1e-8) on a count: false on the missing sentinel
less_1e8(y) == ~is_nan(y) /\ y.v < 1

ZINB_init(pi, ridge_lambda, theta, masking, scale_factor, debug) ==
    [cls |-> "ZINB", scale_factor |-> scale_factor, debug |-> debug,
     masking |-> masking, theta |-> theta, pi |-> pi, ridge_lambda |-> ridge_lambda]

\* result, the per-element values before the reduction
ZINB_result(self, yt, yp) ==
    LET nb == NB_call(self, yt, yp, FALSE)
        nb_case == [i \in DOMAIN yt |-> add(nb.val[i], NegLog1mPi(self.pi[i]))]
        pred == [i \in DOMAIN yp |-> mul(yp[i], self.scale_factor[i])]
        theta == [i \in DOMAIN yt |-> minimum(self.theta[i], ThetaClip)]
        zero_case == [i \in DOMAIN yt |-> ZeroCase(self.pi[i], pred[i], theta[i])]
        sel == [i \in DOMAIN yt |->
                   IF less_1e8(yt[i]) THEN zero_case[i] ELSE nb_case[i]]
    IN [i \in DOMAIN yt |-> add(sel[i], Ridge(self.ridge_lambda, self.pi[i]))]

ZINB_loss(self, yt, yp, mean) ==
    LET nb == NB_call(self, yt, yp, FALSE)
        result == ZINB_result(self, yt, yp)
    IN IF nb.kind = "raise" THEN Raise
       ELSE IF mean
            THEN IF self.masking
                 THEN Scalar(_nan2inf(<<_reduce_mean(result)>>)[1])
                 ELSE Scalar(_nan2inf(<<reduce_mean(result)>>)[1])
            ELSE Tensor(_nan2inf(result))

\* ---- mixture losses (loss.py:158-296) ------------------------------------
\* softplus(g), one element; beyond GateSat its float32 value is g for g > 0
\* and 0 for g < 0
Softplus(g) ==
    IF is_nan(g) THEN LNaN
    ELSE IF g.v >= GateSat THEN Term(<<"linear", g.v>>)
    ELSE IF g.v <= -GateSat THEN LZero
    ELSE Term(<<"softplus", g.v>>)

\* reduce_logsumexp(stack((a - shift, b)), axis=0) of two values, one element:
\* NaN if an operand is NaN, +infinity if one is +infinity; with the shift
\* beyond GateSat the float32 value is the larger operand: b, or a - shift
LogSumExp(a, shift, b) ==
    IF is_nan(a) \/ is_nan(shift) \/ is_nan(b) THEN LNaN
    ELSE IF a.k = "inf" \/ b.k = "inf" THEN LInf
    ELSE IF shift.v >= GateSat THEN b
    ELSE IF shift.v <= -GateSat THEN add(a, Term(<<"linear", -shift.v>>))
    ELSE Term(<<"lse", a.num, a.den, shift.v, b.num, b.den>>)

\* tf.math.log of a reduced loss
Log(x) == IF x.k = "fin" THEN Term(<<"log", x.num, x.den>>) ELSE x

plus(a, b) == IF is_nan(a) \/ is_nan(b) THEN NaN ELSE Num(a.v + b.v)

CombNBLoss_init(pi, alpha, theta1, theta2, masking, scale_factor, debug) ==
    [cls |-> "CombNBLoss", scale_factor |-> scale_factor, debug |-> debug,
     masking |-> masking, theta |-> <<>>, pi |-> pi, alpha |-> alpha,
     theta1 |-> theta1, theta2 |-> theta2]

\* result, the per-element values before the reduction
CombNBLoss_result(self, yt, yp) ==
    LET mean1 == yp
        mean2 == [i \in DOMAIN yp |-> mul(mean1[i], self.alpha[i])]
        nb_case1 == NB_loss(self, yt, mean1, FALSE, self.theta1)
        nb_case2 == NB_loss(self, yt, mean2, FALSE, self.theta2)
    IN [i \in DOMAIN yt |->
           add(LogSumExp(nb_case1.val[i], self.pi[i], nb_case2.val[i]),
               Softplus(self.pi[i]))]

CombNBLoss_loss(self, yt, yp) ==
    LET mean1 == yp
        mean2 == [i \in DOMAIN yp |-> mul(mean1[i], self.alpha[i])]
        nb_case1 == NB_loss(self, yt, mean1, FALSE, self.theta1)
        nb_case2 == NB_loss(self, yt, mean2, FALSE, self.theta2)
        result == CombNBLoss_result(self, yt, yp)
    IN IF nb_case1.kind = "raise" \/ nb_case2.kind = "raise" THEN Raise
       ELSE Scalar(_nan2inf(<<_reduce_mean(result)>>)[1])

CombNBLossSimple_init(mean1, mean2, theta1, theta2, masking, scale_factor, debug) ==
    [cls |-> "CombNBLossSimple", scale_factor |-> scale_factor, debug |-> debug,
     masking |-> masking, theta |-> <<>>, mean1 |-> mean1, mean2 |-> mean2,
     theta1 |-> theta1, theta2 |-> theta2]

\* result, the per-element values before the reduction
CombNBLossSimple_result(self, yt, yp) ==
    LET pi == yp
        nb_case1 == NB_loss(self, yt, self.mean1, FALSE, self.theta1)
        nb_case2 == NB_loss(self, yt, self.mean2, FALSE, self.theta2)
    IN [i \in DOMAIN yt |->
           add(LogSumExp(nb_case1.val[i], pi[i], nb_case2.val[i]),
               Softplus(pi[i]))]

CombNBLossSimple_loss(self, yt, yp) ==
    LET nb_case1 == NB_loss(self, yt, self.mean1, FALSE, self.theta1)
        nb_case2 == NB_loss(self, yt, self.mean2, FALSE, self.theta2)
        result == CombNBLossSimple_result(self, yt, yp)
    IN IF nb_case1.kind = "raise" \/ nb_case2.kind = "raise" THEN Raise
       ELSE Scalar(_nan2inf(<<_reduce_mean(result)>>)[1])

CombNBPoissonLossExtra_init(enzyme_cells, pi, lambda_poisson, theta, masking, scale_factor, debug) ==
    [cls |-> "CombNBPoissonLossExtra", scale_factor |-> scale_factor, debug |-> debug,
     masking |-> masking, theta |-> theta, pi |-> pi, enzyme_cells |-> enzyme_cells,
     lambda_poisson |-> lambda_poisson]

\* result, the per-element values before the reduction
CombNBPoissonLossExtra_result(self, yt, yp) ==
    LET mean1 == yp
        nb_case == NB_loss(self, yt, mean1, FALSE, self.theta)
        poiss_case == Log(poisson_loss(yt, self.lambda_poisson).val)
    IN [i \in DOMAIN yt |->
           add(add(LogSumExp(poiss_case, plus(self.pi[i], self.enzyme_cells[i]),
                             nb_case.val[i]),
                   Softplus(self.pi[i])),
               Softplus(self.enzyme_cells[i]))]

CombNBPoissonLossExtra_loss(self, yt, yp) ==
    LET mean1 == yp
        nb_case == NB_loss(self, yt, mean1, FALSE, self.theta)
        result == CombNBPoissonLossExtra_result(self, yt, yp)
    IN IF nb_case.kind = "raise" THEN Raise
       ELSE Scalar(_nan2inf(<<_reduce_mean(result)>>)[1])

CombNBLossSimpleExtra_init(enzyme_cells, mean1, mean2, theta1, theta2, masking, scale_factor, debug) ==
    [cls |-> "CombNBLossSimpleExtra", scale_factor |-> scale_factor, debug |-> debug,
     masking |-> masking, theta |-> <<>>, enzyme_cells |-> enzyme_cells,
     mean1 |-> mean1, mean2 |-> mean2, theta1 |-> theta1, theta2 |-> theta2]

\* result, the per-element values before the reduction
CombNBLossSimpleExtra_result(self, yt, yp) ==
    LET pi == yp
        nb_case1 == NB_loss(self, yt, self.mean1, FALSE, self.theta1)
        nb_case2 == NB_loss(self, yt, self.mean2, FALSE, self.theta2)
    IN [i \in DOMAIN yt |->
           add(add(LogSumExp(nb_case1.val[i], plus(pi[i], self.enzyme_cells[i]),
                             nb_case2.val[i]),
                   Softplus(pi[i])),
               Softplus(self.enzyme_cells[i]))]

CombNBLossSimpleExtra_loss(self, yt, yp) ==
    LET nb_case1 == NB_loss(self, yt, self.mean1, FALSE, self.theta1)
        nb_case2 == NB_loss(self, yt, self.mean2, FALSE, self.theta2)
        result == CombNBLossSimpleExtra_result(self, yt, yp)
    IN IF nb_case1.kind = "raise" \/ nb_case2.kind = "raise" THEN Raise
       ELSE Scalar(_nan2inf(<<_reduce_mean(result)>>)[1])

\* keras.objectives.mean_squared_error: K.mean(K.square(y_pred - y_true))
mean_squared_error(yt, yp) ==
    Scalar(reduce_mean([i \in DOMAIN yt |->
               IF is_nan(yt[i]) \/ is_nan(yp[i]) THEN LNaN
               ELSE Term(<<"square", yp[i].v, yt[i].v>>)]))

\* ---- output-head composition (network.py) ---------------------------------
\* A head is a named layer that build_output adds on top of the trunk.
Layer(name, layer, act, constraint, input) ==
    [name |-> name, layer |-> layer, act |-> act, constraint |-> constraint,
     input |-> input]

\* Dense(..., activation=act, name=name)(input)
Dense(name, act, input) == Layer(name, "Dense", act, "none", input)
\* Linear(..., name=name, activation=act, constraint=constraint)(input)
Linear(name, act, constraint, input) == Layer(name, "Linear", act, constraint, input)
\* ConstantDispersionLayer(name=name): a trainable scalar read as theta_exp
ConstantDispersionLayer(name) ==
    Layer(name, "ConstantDispersionLayer", "theta_exp", "none", "none")

\* A symbolic tensor: the heads whose outputs are multiplied into it and
\* how many times the size-factor input was multiplied into it.
Out(h) == [heads |-> {h}, sf |-> 0]
sf_layer == [heads |-> {}, sf |-> 1]
times(a, b) == [heads |-> a.heads \cup b.heads, sf |-> a.sf + b.sf]

RECURSIVE ColwiseMultFrom(_, _)
ColwiseMultFrom(l, i) ==
    IF i = Len(l) THEN l[i] ELSE times(l[i], ColwiseMultFrom(l, i + 1))

\* ColwiseMultLayer(l): the first tensor scaled by the ones after it
ColwiseMultLayer(l) == ColwiseMultFrom(l, 1)

\* SliceLayer(0)(l): the first tensor is the model output, the rest stay attached
SliceLayer(l) == l[1]

Net(cls, heads, output, declared, loss, scale_factor, args) ==
    [cls |-> cls, heads |-> heads, output |-> output, declared |-> declared,
     loss |-> loss, scale_factor |-> scale_factor, args |-> args]

NoArgs == [f \in {} |-> sf_layer]

Autoencoder_build_output(cls, input) ==
    LET mean == Dense("mean", "none", input)
        output == ColwiseMultLayer(<<Out("mean"), sf_layer>>)
    IN Net(cls, {mean}, output, <<output>>, "mean_squared_error", "none", NoArgs)

PoissonAutoencoder_build_output(cls, input) ==
    LET mean == Dense("mean", "MeanAct", input)
        output == ColwiseMultLayer(<<Out("mean"), sf_layer>>)
    IN Net(cls, {mean}, output, <<output>>, "poisson_loss", "none", NoArgs)

NBConstantDispAutoencoder_build_output(cls, input) ==
    LET mean == Dense("mean", "MeanAct", input)
        disp == ConstantDispersionLayer("dispersion")
        output == ColwiseMultLayer(<<Out("mean"), sf_layer>>)
    IN Net(cls, {mean, disp}, output, <<output>>, "NB", "1.0",
           [theta |-> Out("dispersion")])

\* NBAutoencoder, NBSharedAutoencoder and NBForkAutoencoder
NBAutoencoder_build_output(cls, input_mean, input_disp) ==
    LET disp == Dense("dispersion", "DispAct", input_disp)
        mean == Dense("mean", "MeanAct", input_mean)
        output == ColwiseMultLayer(<<Out("mean"), sf_layer>>)
        sliced == <<output, Out("dispersion")>>
    IN Net(cls, {disp, mean}, SliceLayer(sliced), sliced, "NB", "1.0",
           [theta |-> Out("dispersion")])

\* ZINBAutoencoder, ZINBSharedAutoencoder and ZINBForkAutoencoder
ZINBAutoencoder_build_output(cls, input_mean, input_disp, input_pi) ==
    LET pi == Dense("pi", "sigmoid", input_pi)
        disp == Dense("dispersion", "DispAct", input_disp)
        mean == Dense("mean", "MeanAct", input_mean)
        output == ColwiseMultLayer(<<Out("mean"), sf_layer>>)
        sliced == <<output, Out("dispersion"), Out("pi")>>
    IN Net(cls, {pi, disp, mean}, SliceLayer(sliced), sliced, "ZINB", "1.0",
           [pi |-> Out("pi"), theta |-> Out("dispersion")])

ZINBAutoencoderElemPi_build_output(cls, input) ==
    LET disp == Dense("dispersion", "DispAct", input)
        mean_no_act == Dense("mean_no_act", "none", input)
        pi == Layer("pi", "ElementwiseDense", "sigmoid", "none", "mean_no_act")
        mean == Layer("mean", "Activation", "MeanAct", "none", "mean_no_act")
        output == ColwiseMultLayer(<<Out("mean"), sf_layer>>)
        sliced == <<output, Out("dispersion"), Out("pi")>>
    IN Net(cls, {disp, mean_no_act, pi, mean}, SliceLayer(sliced), sliced, "ZINB", "1.0",
           [pi |-> Out("pi"), theta |-> Out("dispersion")])

ZINBConstantDispAutoencoder_build_output(cls, input) ==
    LET pi == Dense("pi", "sigmoid", input)
        mean == Dense("mean", "MeanAct", input)
        disp == ConstantDispersionLayer("dispersion")
        output == ColwiseMultLayer(<<Out("mean"), sf_layer>>)
    IN Net(cls, {pi, mean, disp}, output, <<output>>, "ZINB", "1.0",
           [pi |-> Out("pi"), theta |-> Out("dispersion")])

CombNBAutoencoder_build_output(cls, input) ==
    LET pi == Dense("pi", "sigmoid", input)
        disp1 == Dense("dispersion1", "DispAct", input)
        disp2 == Dense("dispersion2", "DispAct", input)
        mean1 == Dense("mean1", "MeanAct", input)
        alpha == Dense("alpha", "softmax", input)
        enzyme_cells == Linear("enzyme_cells", "sigmoid", "none", input)
        mean2 == times(Out("mean1"), Out("alpha"))
        output == ColwiseMultLayer(<<Out("pi"), Out("enzyme_cells"), sf_layer>>)
        sliced == <<output, Out("mean1"), Out("dispersion1"), Out("dispersion2"),
                    Out("alpha")>>
    IN Net(cls, {pi, disp1, disp2, mean1, alpha, enzyme_cells}, SliceLayer(sliced),
           sliced, "CombNBLossSimpleExtra", "sf_layer",
           [enzyme_cells |-> Out("enzyme_cells"), mean1 |-> Out("mean1"),
            mean2 |-> mean2, theta1 |-> Out("dispersion1"),
            theta2 |-> Out("dispersion2")])

CombNBAutoencoderConstantDispersion_build_output(cls, input) ==
    LET pi == Dense("pi", "sigmoid", input)
        mean1 == Dense("mean1", "MeanAct", input)
        enzyme_cells == Linear("enzyme_cells", "sigmoid", "none", input)
        disp1 == ConstantDispersionLayer("dispersion1")
        alpha == Dense("alpha", "softmax", input)
        mean2 == times(Out("mean1"), Out("alpha"))
        disp2 == ConstantDispersionLayer("dispersion2")
        output == ColwiseMultLayer(<<Out("pi"), Out("enzyme_cells"), sf_layer>>)
        sliced == <<output, Out("mean1"), Out("alpha"), mean2>>
    IN Net(cls, {pi, mean1, enzyme_cells, disp1, alpha, disp2}, SliceLayer(sliced),
           sliced, "CombNBLossSimpleExtra", "sf_layer",
           [enzyme_cells |-> Out("enzyme_cells"), mean1 |-> Out("mean1"),
            mean2 |-> mean2, theta1 |-> Out("dispersion1"),
            theta2 |-> Out("dispersion2")])

CombNBPoissonAutoencoder_build_output(cls, input) ==
    LET pi == Dense("pi", "sigmoid", input)
        mean_nb == Dense("mean_nb", "MeanAct", input)
        disp_nb == Dense("dispersion_nb", "DispAct", input)
        enzyme_cells == Linear("enzyme_cells", "sigmoid", "none", input)
        lambda_poisson == Dense("lambda_poisson", "MeanAct", input)
        output == ColwiseMultLayer(<<Out("mean_nb"), Out("enzyme_cells"), sf_layer>>)
        sliced == <<output, Out("pi"), Out("lambda_poisson"), Out("dispersion_nb")>>
    IN Net(cls, {pi, mean_nb, disp_nb, enzyme_cells, lambda_poisson},
           SliceLayer(sliced), sliced, "CombNBPoissonLossExtra", "sf_layer",
           [enzyme_cells |-> Out("enzyme_cells"), pi |-> Out("pi"),
            lambda_poisson |-> Out("lambda_poisson"),
            theta |-> Out("dispersion_nb")])

CombNBPoissonAutoencoderConstantDispersion_build_output(cls, input) ==
    LET pi == Dense("pi", "sigmoid", input)
        mean_nb == Dense("mean_nb", "MeanAct", input)
        disp_nb == ConstantDispersionLayer("dispersion_nb")
        enzyme_cells == Linear("enzyme_cells", "sigmoid", "none", input)
        lambda_poisson == Dense("lambda_poisson", "MeanAct", input)
        output == ColwiseMultLayer(<<Out("mean_nb"), Out("enzyme_cells"), sf_layer>>)
        sliced == <<output, Out("pi"), Out("lambda_poisson")>>
    IN Net(cls, {pi, mean_nb, disp_nb, enzyme_cells, lambda_poisson},
           SliceLayer(sliced), sliced, "CombNBPoissonLossExtra", "sf_layer",
           [enzyme_cells |-> Out("enzyme_cells"), pi |-> Out("pi"),
            lambda_poisson |-> Out("lambda_poisson"),
            theta |-> Out("dispersion_nb")])

CombNBSimpleAutoencoder_build_output(cls, input) ==
    LET pi == Dense("pi", "sigmoid", input)
        disp1 == Linear("dispersion1", "none", "none", "pi")
        disp2 == Linear("dispersion2", "none", "none", "pi")
        mean1 == Linear("mean1", "none", "none", "dispersion1")
        alpha == Linear("alpha", "none", "clip_by_value(z, 0, 1)", "dispersion2")
        mean2 == times(Out("mean1"), Out("alpha"))
        output == ColwiseMultLayer(<<Out("pi"), sf_layer>>)
        sliced == <<output, Out("mean1"), mean2, Out("dispersion1"), Out("dispersion2")>>
    IN Net(cls, {pi, disp1, disp2, mean1, alpha}, SliceLayer(sliced), sliced,
           "CombNBLossSimple", "sf_layer",
           [mean1 |-> Out("mean1"), mean2 |-> mean2,
            theta1 |-> Out("dispersion1"), theta2 |-> Out("dispersion2")])

CombNBExtraParameters_build_output(cls, input) ==
    LET pi == Dense("pi", "sigmoid", input)
        enzyme_cells == Linear("enzyme_cells", "none", "clip_by_value(z, 0.0, 1.0)",
                               "input_layer")
        mean1 == Linear("mean1", "none", "none", input)
        alpha == Linear("alpha", "none", "none", input)
        disp1 == ConstantDispersionLayer("dispersion1")
        mean2 == times(Out("mean1"), Out("alpha"))
        disp2 == ConstantDispersionLayer("dispersion2")
        output == ColwiseMultLayer(<<Out("pi"), sf_layer>>)
        sliced == <<output, Out("enzyme_cells"), Out("mean1"), mean2>>
    IN Net(cls, {pi, enzyme_cells, mean1, alpha, disp1, disp2}, SliceLayer(sliced),
           sliced, "CombNBLossSimpleExtra", "sf_layer",
           [enzyme_cells |-> Out("enzyme_cells"), mean1 |-> Out("mean1"),
            mean2 |-> mean2, theta1 |-> Out("dispersion1"),
            theta2 |-> Out("dispersion2")])

\* the registry: name -> class, and what build() of that class produces
AE_types ==
    ("normal" :> "Autoencoder") @@ ("poisson" :> "PoissonAutoencoder")
    @@ ("nb" :> "NBConstantDispAutoencoder") @@ ("nb-conddisp" :> "NBAutoencoder")
    @@ ("nb-shared" :> "NBSharedAutoencoder") @@ ("nb-fork" :> "NBForkAutoencoder")
    @@ ("zinb" :> "ZINBConstantDispAutoencoder") @@ ("zinb-conddisp" :> "ZINBAutoencoder")
    @@ ("zinb-shared" :> "ZINBSharedAutoencoder") @@ ("zinb-fork" :> "ZINBForkAutoencoder")
    @@ ("zinb-elempi" :> "ZINBAutoencoderElemPi") @@ ("meth-encoder" :> "CombNBAutoencoder")
    @@ ("meth-encoder-constant" :> "CombNBAutoencoderConstantDispersion")
    @@ ("meth-encoder-poisson" :> "CombNBPoissonAutoencoder")
    @@ ("meth-encoder-poisson-constant" :> "CombNBPoissonAutoencoderConstantDispersion")
    @@ ("meth-encoder-extra-params" :> "CombNBExtraParameters")
    @@ ("meth-simple-encoder" :> "CombNBSimpleAutoencoder")

build(cls) ==
    LET d == "decoder_output"
    IN CASE cls = "Autoencoder" -> Autoencoder_build_output(cls, d)
         [] cls = "PoissonAutoencoder" -> PoissonAutoencoder_build_output(cls, d)
         [] cls = "NBConstantDispAutoencoder" ->
                NBConstantDispAutoencoder_build_output(cls, d)
         [] cls \in {"NBAutoencoder", "NBSharedAutoencoder"} ->
                NBAutoencoder_build_output(cls, d, d)
         [] cls = "NBForkAutoencoder" ->
                NBAutoencoder_build_output(cls, "last_hidden_mean", "last_hidden_disp")
         [] cls \in {"ZINBAutoencoder", "ZINBSharedAutoencoder"} ->
                ZINBAutoencoder_build_output(cls, d, d, d)
         [] cls = "ZINBForkAutoencoder" ->
                ZINBAutoencoder_build_output(cls, "last_hidden_mean",
                                             "last_hidden_disp", "last_hidden_pi")
         [] cls = "ZINBAutoencoderElemPi" -> ZINBAutoencoderElemPi_build_output(cls, d)
         [] cls = "ZINBConstantDispAutoencoder" ->
                ZINBConstantDispAutoencoder_build_output(cls, d)
         [] cls = "CombNBAutoencoder" -> CombNBAutoencoder_build_output(cls, d)
         [] cls = "CombNBAutoencoderConstantDispersion" ->
                CombNBAutoencoderConstantDispersion_build_output(cls, d)
         [] cls = "CombNBPoissonAutoencoder" ->
                CombNBPoissonAutoencoder_build_output(cls, d)
         [] cls = "CombNBPoissonAutoencoderConstantDispersion" ->
                CombNBPoissonAutoencoderConstantDispersion_build_output(cls, d)
         [] cls = "CombNBSimpleAutoencoder" -> CombNBSimpleAutoencoder_build_output(cls, d)
         [] cls = "CombNBExtraParameters" -> CombNBExtraParameters_build_output(cls, d)

\* ---- predict and write (network.py) -----------------------------------------
\* A matrix is the sequence of what produced it: the data it started from,
\* then the models applied to it, in order. <<"X", "model">> is the
\* reconstruction of X, <<"X", "model", "encoder">> the latent representation
\* of that reconstruction.
Apply(m, x) == Append(x, m)
\* a value read from the trained weights, K.function([], [theta])([])
Weights(m) == <<"weights", m>>
\* adata.raw is None
NoRaw == <<>>

\* d[k] = v on a dictionary
Put(d, k, v) == [j \in DOMAIN d \cup {k} |-> IF j = k THEN v ELSE d[j]]
NoKeys == [k \in {} |-> <<>>]

\* an AnnData: X, raw.X, obsm and var
AnnData(X, raw, obsm, var) == [X |-> X, raw |-> raw, obsm |-> obsm, var |-> var]

Modes == {"denoise", "latent", "full"}

\* what a call of predict leaves: the caller's adata and the value returned
Returned(a) == [kind |-> "adata", val |-> a]
ReturnedNone == [kind |-> "None"]
Raised(exc) == [kind |-> "raise", exc |-> exc]

\* a predict that works on the caller's adata whatever copy says
Done_inplace(adata, work, copy) ==
    [adata |-> work, ret |-> IF copy THEN Returned(work) ELSE ReturnedNone]

\* adata = adata.copy() if copy else adata ... return adata if copy else None
Done(adata, work, copy) ==
    [adata |-> IF copy THEN adata ELSE work,
     ret |-> IF copy THEN Returned(work) ELSE ReturnedNone]

\* the same, left by an exception: what was written into the caller's adata stays
Fail(adata, work, copy, exc) ==
    [adata |-> IF copy THEN adata ELSE work, ret |-> Raised(exc)]

Autoencoder_predict(adata, mode, return_info, copy) ==
    IF mode \notin Modes THEN Fail(adata, adata, copy, "AssertionError")
    ELSE LET denoised ==
                 IF mode \in {"denoise", "full"}
                 THEN [adata EXCEPT !.X = Apply("model", adata.X)]
                 ELSE adata
             latent ==
                 IF mode \in {"latent", "full"}
                 THEN [denoised EXCEPT
                          !.obsm = Put(@, "X_dca", Apply("encoder", denoised.X))]
                 ELSE denoised
         IN IF mode # "latent" THEN Done(adata, latent, copy)
            ELSE IF latent.raw = NoRaw THEN Fail(adata, latent, copy, "AttributeError")
            ELSE Done(adata, [latent EXCEPT !.X = latent.raw], copy)

NBConstantDispAutoencoder_predict(adata, mode, return_info, copy) ==
    LET res == Autoencoder_predict(adata, mode, return_info, copy)
        work == IF copy THEN res.ret.val ELSE res.adata
    IN IF res.ret.kind = "raise" THEN res
       ELSE IF return_info
       THEN Done(adata, [work EXCEPT !.var = Put(@, "X_dca_dispersion",
                                                 Weights("dispersion"))], copy)
       ELSE Done(adata, work, copy)

\* NBAutoencoder, NBSharedAutoencoder and NBForkAutoencoder
NBAutoencoder_predict(adata, mode, return_info, copy) ==
    LET res == Autoencoder_predict(adata, mode, return_info, copy)
        work == IF copy THEN res.ret.val ELSE res.adata
    IN IF res.ret.kind = "raise" THEN res
       ELSE IF return_info
       THEN Done(adata, [work EXCEPT !.obsm = Put(@, "X_dca_dispersion",
                                                  Apply("dispersion", work.X))], copy)
       ELSE Done(adata, work, copy)

\* the tail shared by the variants that store first and then call
\* super().predict(adata, mode, return_info, copy=False) on the working adata
ThenSuper(adata, work, mode, return_info, copy) ==
    LET res == Autoencoder_predict(work, mode, return_info, FALSE)
    IN IF res.ret.kind = "raise" THEN Fail(adata, res.adata, copy, res.ret.exc)
       ELSE Done(adata, res.adata, copy)

\* ZINBAutoencoder, ZINBSharedAutoencoder, ZINBForkAutoencoder, ZINBAutoencoderElemPi
ZINBAutoencoder_predict(adata, mode, return_info, copy) ==
    LET info == [adata EXCEPT
                    !.obsm = Put(Put(@, "X_dca_dispersion", Apply("dispersion", adata.X)),
                                 "X_dca_dropout", Apply("pi", adata.X))]
    IN ThenSuper(adata, IF return_info THEN info ELSE adata, mode, return_info, copy)

ZINBConstantDispAutoencoder_predict(adata, mode, return_info, copy) ==
    LET info == [adata EXCEPT
                    !.var = Put(@, "X_dca_dispersion", Weights("dispersion")),
                    !.obsm = Put(@, "X_dca_dropout", Apply("pi", adata.X))]
    IN ThenSuper(adata, IF return_info THEN info ELSE adata, mode, return_info, copy)

\* obsm with one entry per pair <<key, extra model>>, each predicted from X
RECURSIVE PutAll(_, _, _)
PutAll(d, pairs, X) ==
    IF pairs = <<>> THEN d
    ELSE PutAll(Put(d, pairs[1][1], Apply(pairs[1][2], X)), Tail(pairs), X)

CombNBAutoencoder_predict(adata, mode, return_info, copy) ==
    LET info == [adata EXCEPT
                    !.obsm = PutAll(@, << <<"X_meth_dispersion1", "dispersion1">>,
                                          <<"X_meth_dispersion2", "dispersion2">>,
                                          <<"X_meth_value", "pi">>,
                                          <<"alpha", "alpha">>,
                                          <<"mean1_norm", "mean1_norm">>,
                                          <<"X_enzyme_activity", "enzyme_cells">> >>,
                                    adata.X)]
    IN ThenSuper(adata, IF return_info THEN info ELSE adata, mode, return_info, copy)

\* super().predict is not called: nothing checks the mode, X is left alone
CombNBAutoencoderConstantDispersion_predict(adata, mode, return_info, copy) ==
    LET info == [adata EXCEPT
                    !.var = Put(Put(@, "meth_dispersion1", Weights("dispersion1")),
                                "meth_dispersion2", Weights("dispersion2")),
                    !.obsm = PutAll(@, << <<"X_meth_value", "pi">>,
                                          <<"X_enzyme_activity", "enzyme_cells">>,
                                          <<"alpha", "alpha">>,
                                          <<"mean1_norm", "mean1_norm">> >>,
                                    adata.X)]
    IN Done(adata, IF return_info THEN info ELSE adata, copy)

\* super().predict is not called
CombNBPoissonAutoencoder_predict(adata, mode, return_info, copy) ==
    LET info == [adata EXCEPT
                    !.obsm = PutAll(@, << <<"X_meth_dispersion_nb", "dispersion_nb">>,
                                          <<"X_meth_value", "pi">>,
                                          <<"lambda_poisson", "lambda_poisson">>,
                                          <<"mean_nb_norm", "mean_nb_norm">>,
                                          <<"X_enzyme_activity", "enzyme_cells">> >>,
                                    adata.X)]
    IN Done(adata, IF return_info THEN info ELSE adata, copy)

\* super().predict is not called
CombNBPoissonAutoencoderConstantDispersion_predict(adata, mode, return_info, copy) ==
    LET info == [adata EXCEPT
                    !.var = Put(@, "meth_dispersion_nb", Weights("dispersion_nb")),
                    !.obsm = PutAll(@, << <<"X_meth_value", "pi">>,
                                          <<"lambda_poisson", "lambda_poisson">>,
                                          <<"mean_nb_norm", "mean_nb_norm">>,
                                          <<"X_enzyme_activity", "enzyme_cells">> >>,
                                    adata.X)]
    IN Done(adata, IF return_info THEN info ELSE adata, copy)

CombNBSimpleAutoencoder_predict(adata, mode, return_info, copy) ==
    LET info == [adata EXCEPT
                    !.obsm = PutAll(@, << <<"X_meth_value", "pi">>,
                                          <<"mean1_norm", "mean1">>,
                                          <<"mean2_norm", "mean2">> >>,
                                    adata.X)]
    IN ThenSuper(adata, IF return_info THEN info ELSE adata, mode, return_info, copy)

CombNBExtraParameters_predict(adata, mode, return_info, copy) ==
    LET info == [adata EXCEPT
                    !.obsm = PutAll(@, << <<"X_meth_value", "pi">> >>, adata.X)]
    IN ThenSuper(adata, IF return_info THEN info ELSE adata, mode, return_info, copy)

\* self.predict(adata, mode, return_info, copy), by the class of self
predict(cls, adata, mode, return_info, copy) ==
    CASE cls \in {"Autoencoder", "PoissonAutoencoder"} ->
            Autoencoder_predict(adata, mode, return_info, copy)
      [] cls = "NBConstantDispAutoencoder" ->
            NBConstantDispAutoencoder_predict(adata, mode, return_info, copy)
      [] cls \in {"NBAutoencoder", "NBSharedAutoencoder", "NBForkAutoencoder"} ->
            NBAutoencoder_predict(adata, mode, return_info, copy)
      [] cls \in {"ZINBAutoencoder", "ZINBSharedAutoencoder", "ZINBForkAutoencoder",
                  "ZINBAutoencoderElemPi"} ->
            ZINBAutoencoder_predict(adata, mode, return_info, copy)
      [] cls = "ZINBConstantDispAutoencoder" ->
            ZINBConstantDispAutoencoder_predict(adata, mode, return_info, copy)
      [] cls = "CombNBAutoencoder" ->
            CombNBAutoencoder_predict(adata, mode, return_info, copy)
      [] cls = "CombNBAutoencoderConstantDispersion" ->
            CombNBAutoencoderConstantDispersion_predict(adata, mode, return_info, copy)
      [] cls = "CombNBPoissonAutoencoder" ->
            CombNBPoissonAutoencoder_predict(adata, mode, return_info, copy)
      [] cls = "CombNBPoissonAutoencoderConstantDispersion" ->
            CombNBPoissonAutoencoderConstantDispersion_predict(adata, mode,
                                                               return_info, copy)
      [] cls = "CombNBSimpleAutoencoder" ->
            CombNBSimpleAutoencoder_predict(adata, mode, return_info, copy)
      [] cls = "CombNBExtraParameters" ->
            CombNBExtraParameters_predict(adata, mode, return_info, copy)

\* write_text_matrix(data, os.path.join(file_path, file), ...): the file, and the
\* entry of adata the data was read from
File(file, key, data) == [file |-> file, key |-> key, data |-> data]
Files(fs) == [kind |-> "files", val |-> fs]

Autoencoder_write(adata, mode) ==
    LET mean == IF mode \in {"denoise", "full"}
                THEN {File("mean.tsv", "X", adata.X)}
                ELSE {}
    IN IF mode \notin {"latent", "full"} THEN Files(mean)
       ELSE IF "X_dca" \notin DOMAIN adata.obsm THEN Raised("KeyError")
       ELSE Files(mean \cup {File("latent.tsv", "X_dca", adata.obsm["X_dca"])})

\* if test in adata.<in>_keys(): write_text_matrix(adata.<in>[read], file)
Test(test, in, read, file) == [test |-> test, in |-> in, read |-> read, file |-> file]

NBConstantDispAutoencoder_write_tests ==
    {Test("X_dca_dispersion", "var", "X_dca_dispersion", "dispersion.tsv")}

\* NBAutoencoder, NBSharedAutoencoder and NBForkAutoencoder
NBAutoencoder_write_tests ==
    {Test("X_dca_dispersion", "obsm", "X_dca_dispersion", "dispersion.tsv")}

\* ZINBAutoencoder, ZINBSharedAutoencoder, ZINBForkAutoencoder, ZINBAutoencoderElemPi
ZINBAutoencoder_write_tests ==
    {Test("X_dca_dispersion", "obsm", "X_dca_dispersion", "dispersion.tsv"),
     Test("X_dca_dropout", "obsm", "X_dca_dropout", "dropout.tsv")}

ZINBConstantDispAutoencoder_write_tests ==
    {Test("X_dca_dispersion", "var", "X_dca_dispersion", "dispersion.tsv"),
     Test("X_dca_dropout", "obsm", "X_dca_dropout", "dropout.tsv")}

\* CombNBAutoencoder and CombNBAutoencoderConstantDispersion
CombNBAutoencoder_write_tests ==
    {Test("X_meth_dispersion", "obsm", "X_meth_dispersion1", "dispersion1.tsv"),
     Test("X_meth_dispersion2", "obsm", "X_meth_dispersion2", "dispersion2.tsv"),
     Test("X_meth_value", "obsm", "X_meth_value", "meth_value.tsv"),
     Test("X_alpha", "obsm", "X_alpha", "alpha.tsv"),
     Test("X_mean", "obsm", "X_mean", "mean.tsv")}

\* CombNBSimpleAutoencoder and CombNBExtraParameters
CombNBSimpleAutoencoder_write_tests ==
    {Test("X_meth_value", "obsm", "X_meth_value", "meth_value.tsv")}

\* the keys that write of the class tests, after super().write
write_tests(cls) ==
    CASE cls = "NBConstantDispAutoencoder" -> NBConstantDispAutoencoder_write_tests
      [] cls \in {"NBAutoencoder", "NBSharedAutoencoder", "NBForkAutoencoder"} ->
            NBAutoencoder_write_tests
      [] cls \in {"ZINBAutoencoder", "ZINBSharedAutoencoder", "ZINBForkAutoencoder",
                  "ZINBAutoencoderElemPi"} ->
            ZINBAutoencoder_write_tests
      [] cls = "ZINBConstantDispAutoencoder" -> ZINBConstantDispAutoencoder_write_tests
      [] cls \in {"CombNBAutoencoder", "CombNBAutoencoderConstantDispersion"} ->
            CombNBAutoencoder_write_tests
      [] cls \in {"CombNBSimpleAutoencoder", "CombNBExtraParameters"} ->
            CombNBSimpleAutoencoder_write_tests
      [] OTHER -> {}

\* self.write(adata, file_path, mode): super().write, then one file per test
\* that finds its key
write(cls, adata, mode) ==
    LET base == Autoencoder_write(adata, mode)
        found == {t \in write_tests(cls) : t.test \in DOMAIN adata[t.in]}
    IN IF base.kind = "raise" THEN base
       ELSE IF \E t \in found : t.read \notin DOMAIN adata[t.in] THEN Raised("KeyError")
       ELSE Files(base.val \cup {File(t.file, t.read, adata[t.in][t.read]) : t \in found})

\* ---- the state ------------------------------------------------------------
MeanValues == {1, 2}            \* values of a MeanAct head
ThetaValues == {1, 2000000}     \* dispersions given to a loss built by hand
DispValues == {1, 2}            \* values of a DispAct or theta_exp head
PiValues == {0, 50}             \* dropout probability, percent
GateValues == {0, 1}            \* enzyme_cells
AlphaValues == {0, 1}
SfValues == {1, 2}              \* size factors
RidgeValues == {0, 1}

Lens == 1..MaxLen
Counts == {NaN} \cup {Num(c) : c \in 0..MaxCount}
Preds == {NaN} \cup {Num(m) : m \in MeanValues}
Tensors(S, n) == [1..n -> S]

VARIABLES
    net,     \* the variant that build() assembled, if any
    obj,     \* the loss that is evaluated: a loss object or a loss function
    call,    \* the arguments of the evaluation in progress
    ret,     \* what that evaluation returned
    adata    \* the caller's AnnData, which predict works on

vars == <<net, obj, call, ret, adata>>

NoNet == [cls |-> "none"]
NoObj == [cls |-> "none"]
NoCall == [fn |-> "none"]
NoRet == [kind |-> "none"]
NoAdata == [X |-> <<>>]

Init ==
    /\ net = NoNet
    /\ obj = NoObj
    /\ call = NoCall
    /\ ret = NoRet
    /\ adata = NoAdata

\* nb = NB(theta=..., masking=..., debug=...)
NewNB ==
    /\ obj = NoObj /\ ret = NoRet
    /\ \E n \in Lens, t \in ThetaValues, m \in BOOLEAN, d \in BOOLEAN :
        obj' = NB_init(fill(Num(t), n), m, fill(Num(1), n), d)
    /\ UNCHANGED <<net, call, ret, adata>>

\* zinb = ZINB(pi, theta=..., ridge_lambda=..., masking=..., debug=...)
NewZINB ==
    /\ obj = NoObj /\ ret = NoRet
    /\ \E n \in Lens, p \in PiValues, l \in RidgeValues, t \in ThetaValues,
          m \in BOOLEAN, d \in BOOLEAN :
        obj' = ZINB_init(fill(Num(p), n), l, fill(Num(t), n), m, fill(Num(1), n), d)
    /\ UNCHANGED <<net, call, ret, adata>>

\* the loss object (or function) that build_output pairs with the heads, on a
\* batch of n elements; v holds the values the heads take on that batch
LossOf(nt, n, v, ridge, debug) ==
    LET one == fill(Num(1), n)
        scale == IF nt.scale_factor = "sf_layer" THEN fill(Num(v.sf), n) ELSE one
        mean1 == fill(Num(v.mean1), n)
        mean2 == fill(Num(v.mean1 * v.alpha), n)
        theta1 == fill(Num(v.theta1), n)
        theta2 == fill(Num(v.theta2), n)
        enzyme_cells == fill(Num(v.enzyme_cells), n)
        pi == fill(Num(v.pi), n)
        lambda_poisson == fill(Num(v.lambda_poisson), n)
    IN CASE nt.loss \in {"mean_squared_error", "poisson_loss"} -> [cls |-> nt.loss]
         [] nt.loss = "NB" ->
                NB_init(theta1, FALSE, scale,
                        IF nt.cls = "NBConstantDispAutoencoder" THEN FALSE ELSE debug)
         [] nt.loss = "ZINB" -> ZINB_init(pi, ridge, theta1, FALSE, scale, debug)
         [] nt.loss = "CombNBLossSimple" ->
                CombNBLossSimple_init(mean1, mean2, theta1, theta2, FALSE, scale, debug)
         [] nt.loss = "CombNBLossSimpleExtra" ->
                CombNBLossSimpleExtra_init(enzyme_cells, mean1, mean2, theta1, theta2,
                                           FALSE, scale, debug)
         [] nt.loss = "CombNBPoissonLossExtra" ->
                CombNBPoissonLossExtra_init(enzyme_cells, pi, lambda_poisson, theta1,
                                            FALSE, scale, debug)

HeadValues ==
    [sf : SfValues, mean1 : MeanValues, alpha : AlphaValues, theta1 : DispValues,
     theta2 : DispValues, enzyme_cells : GateValues, pi : PiValues,
     lambda_poisson : MeanValues]

\* AE_types[name](...).build()
Build ==
    /\ obj = NoObj /\ ret = NoRet
    /\ \E name \in DOMAIN AE_types, n \in Lens, v \in HeadValues,
          ridge \in RidgeValues, debug \in BOOLEAN :
        /\ net' = build(AE_types[name])
        /\ obj' = LossOf(net', n, v, ridge, debug)
    /\ UNCHANGED <<call, ret, adata>>

Loss(self, yt, yp, mean) ==
    CASE self.cls = "NB" -> NB_call(self, yt, yp, mean)
      [] self.cls = "ZINB" -> ZINB_loss(self, yt, yp, mean)
      [] self.cls = "CombNBLoss" -> CombNBLoss_loss(self, yt, yp)
      [] self.cls = "CombNBLossSimple" -> CombNBLossSimple_loss(self, yt, yp)
      [] self.cls = "CombNBLossSimpleExtra" -> CombNBLossSimpleExtra_loss(self, yt, yp)
      [] self.cls = "CombNBPoissonLossExtra" -> CombNBPoissonLossExtra_loss(self, yt, yp)
      [] self.cls = "poisson_loss" -> poisson_loss(yt, yp)
      [] self.cls = "mean_squared_error" -> mean_squared_error(yt, yp)

BatchLens(self) ==
    IF "scale_factor" \in DOMAIN self THEN {Len(self.scale_factor)} ELSE Lens

\* obj.loss(y_true, y_pred) or obj.loss(y_true, y_pred, mean=False)
CallLoss ==
    /\ obj # NoObj
    /\ ret = NoRet
    /\ \E n \in BatchLens(obj) :
         \E yt \in Tensors(Counts, n), yp \in Tensors(Preds, n),
            mean \in IF obj.cls \in {"NB", "ZINB"} THEN BOOLEAN ELSE {TRUE} :
            /\ call' = [fn |-> "loss", y_true |-> yt, y_pred |-> yp, mean |-> mean]
            /\ ret' = Loss(obj, yt, yp, mean)
    /\ UNCHANGED <<net, obj, adata>>

\* poisson_loss(y_true, y_pred), called as a function of the module
CallPoisson ==
    /\ obj = NoObj
    /\ ret = NoRet
    /\ \E n \in Lens :
         \E yt \in Tensors(Counts, n), yp \in Tensors(Preds, n) :
            /\ call' = [fn |-> "poisson_loss", y_true |-> yt, y_pred |-> yp,
                        mean |-> TRUE]
            /\ ret' = poisson_loss(yt, yp)
    /\ UNCHANGED <<net, obj, adata>>

\* per-element values handed to _reduce_mean
Losses == {LNaN, LInf} \cup {Term(<<"element", c>>) : c \in 0..MaxCount}

\* _nelem(x), called as a function of the module
CallNelem ==
    /\ obj = NoObj
    /\ ret = NoRet
    /\ \E n \in Lens :
         \E x \in Tensors(Counts, n) :
            /\ call' = [fn |-> "_nelem", x |-> x]
            /\ ret' = [kind |-> "count", val |-> _nelem(x)]
    /\ UNCHANGED <<net, obj, adata>>

\* _reduce_mean(x), called as a function of the module
CallReduceMean ==
    /\ obj = NoObj
    /\ ret = NoRet
    /\ \E n \in Lens :
         \E x \in Tensors(Losses, n) :
            /\ call' = [fn |-> "_reduce_mean", x |-> x]
            /\ ret' = Scalar(_reduce_mean(x))
    /\ UNCHANGED <<net, obj, adata>>

\* the evaluation has returned; the loss can be evaluated again
Return ==
    /\ ret # NoRet
    /\ call' = NoCall
    /\ ret' = NoRet
    /\ UNCHANGED <<net, obj, adata>>

\* the loss family used as a library
Next ==
    \/ NewNB
    \/ NewZINB
    \/ CallLoss
    \/ CallPoisson
    \/ CallNelem
    \/ CallReduceMean
    \/ Return

Spec == Init /\ [][Next]_vars

\* the registry variants, each trained with the loss build_output pairs it with
NextNet ==
    \/ Build
    \/ CallLoss
    \/ Return

SpecNet == Init /\ [][NextNet]_vars

\* gate logits: balanced, and saturated on either side
GateLogits == {-GateSat, 0, GateSat}

\* CombNBLoss(pi, alpha, theta1, theta2, masking=..., debug=...)
NewCombNBLoss ==
    /\ obj = NoObj /\ ret = NoRet
    /\ \E n \in Lens, p \in GateLogits, a \in AlphaValues, t1 \in DispValues,
          t2 \in DispValues, m \in BOOLEAN, d \in BOOLEAN :
        obj' = CombNBLoss_init(fill(Num(p), n), fill(Num(a), n), fill(Num(t1), n),
                               fill(Num(t2), n), m, fill(Num(1), n), d)
    /\ UNCHANGED <<net, call, ret, adata>>

\* CombNBLossSimple(mean1, mean2, theta1, theta2, masking=..., debug=...)
NewCombNBLossSimple ==
    /\ obj = NoObj /\ ret = NoRet
    /\ \E n \in Lens, m1 \in MeanValues, m2 \in MeanValues, t1 \in DispValues,
          t2 \in DispValues, m \in BOOLEAN, d \in BOOLEAN :
        obj' = CombNBLossSimple_init(fill(Num(m1), n), fill(Num(m2), n),
                                     fill(Num(t1), n), fill(Num(t2), n), m,
                                     fill(Num(1), n), d)
    /\ UNCHANGED <<net, call, ret, adata>>

\* CombNBLossSimpleExtra(enzyme_cells, mean1, mean2, theta1, theta2, ...)
NewCombNBLossSimpleExtra ==
    /\ obj = NoObj /\ ret = NoRet
    /\ \E n \in Lens, e \in GateValues, m1 \in MeanValues, m2 \in MeanValues,
          t \in DispValues, m \in BOOLEAN, d \in BOOLEAN :
        obj' = CombNBLossSimpleExtra_init(fill(Num(e), n), fill(Num(m1), n),
                                          fill(Num(m2), n), fill(Num(t), n),
                                          fill(Num(t), n), m, fill(Num(1), n), d)
    /\ UNCHANGED <<net, call, ret, adata>>

\* CombNBPoissonLossExtra(enzyme_cells, pi, lambda_poisson, theta=..., ...)
NewCombNBPoissonLossExtra ==
    /\ obj = NoObj /\ ret = NoRet
    /\ \E n \in Lens, e \in GateValues, p \in GateLogits, l \in MeanValues,
          t \in DispValues, m \in BOOLEAN, d \in BOOLEAN :
        obj' = CombNBPoissonLossExtra_init(fill(Num(e), n), fill(Num(p), n),
                                           fill(Num(l), n), fill(Num(t), n), m,
                                           fill(Num(1), n), d)
    /\ UNCHANGED <<net, call, ret, adata>>

\* loss(y_true, y_pred) of a mixture loss whose y_pred is the gate logit
CallGate ==
    /\ obj.cls \in {"CombNBLossSimple", "CombNBLossSimpleExtra"}
    /\ ret = NoRet
    /\ \E yt \in Tensors(Counts, Len(obj.scale_factor)),
          g \in {NaN} \cup {Num(x) : x \in GateLogits} :
            /\ call' = [fn |-> "loss", y_true |-> yt,
                        y_pred |-> fill(g, Len(obj.scale_factor)), mean |-> TRUE]
            /\ ret' = Loss(obj, yt, call'.y_pred, TRUE)
    /\ UNCHANGED <<net, obj, adata>>

\* the mixture losses used as a library
NextMix ==
    \/ NewCombNBLoss
    \/ NewCombNBLossSimple
    \/ NewCombNBLossSimpleExtra
    \/ NewCombNBPoissonLossExtra
    \/ CallLoss
    \/ CallGate
    \/ Return

SpecMix == Init /\ [][NextMix]_vars

\* ---- evaluations in flight on one shared loss object ---------------------
\* Under SpecPar call holds one record per evaluator and ret one result per
\* evaluator; NoCall and NoRet stand for "no evaluation entered" and "no result".
Evaluators == {1, 2}
Idle == [pc |-> "idle"]

Evals == IF call = NoCall THEN [e \in Evaluators |-> Idle] ELSE call.evals
Rets == IF ret = NoRet THEN [e \in Evaluators |-> NoRet] ELSE ret.val
Calls(ev) ==
    IF \A e \in Evaluators : ev[e] = Idle THEN NoCall ELSE [fn |-> "loss", evals |-> ev]
Results(rs) ==
    IF \A e \in Evaluators : rs[e] = NoRet THEN NoRet ELSE [kind |-> "results", val |-> rs]

\* an evaluation that, on entry, flips masking on the object it is called on
EnterLoss_storing(e) ==
    /\ obj.cls \in {"NB", "ZINB"}
    /\ Evals[e] = Idle
    /\ \E c \in Counts, m \in MeanValues, mean \in BOOLEAN :
         call' = Calls([Evals EXCEPT ![e] =
                          [pc |-> "entered",
                           y_true |-> fill(c, Len(obj.scale_factor)),
                           y_pred |-> fill(Num(m), Len(obj.scale_factor)),
                           mean |-> mean,
                           scale_factor |-> obj.scale_factor]])
    /\ obj' = [obj EXCEPT !.masking = ~obj.masking]
    /\ UNCHANGED <<net, ret, adata>>

\* evaluator e enters loss(y_true, y_pred, mean): the arguments are bound and
\* scale_factor = self.scale_factor is read
EnterLoss(e) ==
    /\ obj.cls \in {"NB", "ZINB"}
    /\ Evals[e] = Idle
    /\ \E c \in Counts, m \in MeanValues, mean \in BOOLEAN :
         call' = Calls([Evals EXCEPT ![e] =
                          [pc |-> "entered",
                           y_true |-> fill(c, Len(obj.scale_factor)),
                           y_pred |-> fill(Num(m), Len(obj.scale_factor)),
                           mean |-> mean,
                           scale_factor |-> obj.scale_factor]])
    /\ UNCHANGED <<net, obj, ret, adata>>

\* evaluator e runs the body of loss: it reads masking, debug, theta (and pi,
\* ridge_lambda) from the object as it is now, and computes with the
\* scale_factor bound on entry
RunLoss(e) ==
    /\ Evals[e].pc = "entered"
    /\ call' = Calls([Evals EXCEPT ![e].pc = "done"])
    /\ ret' = Results([Rets EXCEPT ![e] =
                          Loss([obj EXCEPT !.scale_factor = Evals[e].scale_factor],
                               Evals[e].y_true, Evals[e].y_pred, Evals[e].mean)])
    /\ UNCHANGED <<net, obj, adata>>

\* evaluator e has returned its value to its caller
ReturnLoss(e) ==
    /\ Evals[e].pc = "done"
    /\ call' = Calls([Evals EXCEPT ![e] = Idle])
    /\ ret' = Results([Rets EXCEPT ![e] = NoRet])
    /\ UNCHANGED <<net, obj, adata>>

\* one NB or ZINB loss object evaluated by two callers whose steps interleave
NextPar ==
    \/ NewNB
    \/ NewZINB
    \/ \E e \in Evaluators : EnterLoss(e)
    \/ \E e \in Evaluators : RunLoss(e)
    \/ \E e \in Evaluators : ReturnLoss(e)

SpecPar == Init /\ [][NextPar]_vars

\* ---- inference: predict, then write ------------------------------------------
\* the data an adata arrives with: X, and raw.X, which is absent, the same
\* matrix, or the counts X was normalised from
RawValues == {NoRaw, <<"X">>, <<"counts">>}

\* an adata that no predict has written into
Fresh(a) == a # NoAdata /\ a.X = <<"X">> /\ a.obsm = NoKeys /\ a.var = NoKeys

\* the caller reads the data to denoise
ReadAdata ==
    /\ adata = NoAdata
    /\ \E raw \in RawValues : adata' = AnnData(<<"X">>, raw, NoKeys, NoKeys)
    /\ UNCHANGED <<net, obj, call, ret>>

\* AE_types[name](...) and build(), for inference: the loss is not evaluated
NewAE ==
    /\ net = NoNet
    /\ obj = NoObj
    /\ \E name \in DOMAIN AE_types : net' = build(AE_types[name])
    /\ UNCHANGED <<obj, call, ret, adata>>

\* the modes a caller passes: the three that predict knows, and another one
ModeValues == Modes \cup {"other"}

\* net.predict(adata, mode, return_info, copy), on an adata not yet denoised
Predict ==
    /\ net # NoNet
    /\ obj = NoObj
    /\ call = NoCall /\ ret = NoRet
    /\ Fresh(adata)
    /\ \E mode \in ModeValues, return_info \in BOOLEAN, copy \in BOOLEAN :
         LET res == predict(net.cls, adata, mode, return_info, copy)
         IN /\ call' = [fn |-> "predict", adata |-> adata, mode |-> mode,
                        return_info |-> return_info, copy |-> copy]
            /\ ret' = res.ret
            /\ adata' = res.adata
    /\ UNCHANGED <<net, obj>>

\* net.write(adata, file_path, mode) on the adata that holds the results of the
\* predict that has just returned
Write ==
    /\ call.fn = "predict"
    /\ ret.kind \in {"adata", "None"}
    /\ \E mode \in Modes :
         LET results == IF ret.kind = "adata" THEN ret.val ELSE adata
         IN /\ call' = [fn |-> "write", adata |-> results, mode |-> mode, after |-> call]
            /\ ret' = write(net.cls, results, mode)
    /\ UNCHANGED <<net, obj, adata>>

\* a registry variant used for inference
NextPredict ==
    \/ ReadAdata
    \/ NewAE
    \/ Predict
    \/ Write
    \/ Return

SpecPredict == Init /\ [][NextPredict]_vars

\* ---- shared by the properties ----------------------------------------------
y_true == call.y_true
y_pred == call.y_pred
Called == call # NoCall
Missing(y) == {i \in DOMAIN y : is_nan(y[i])}
\* number of non-missing entries, 1 if there is none
CountValid(y) == IF Missing(y) = DOMAIN y THEN 1 ELSE Len(y) - Cardinality(Missing(y))
Remove(s, i) == [j \in 1..(Len(s) - 1) |-> IF j < i THEN s[j] ELSE s[j + 1]]
TensorFields(self) ==
    DOMAIN self \ {"cls", "debug", "masking", "ridge_lambda"}
\* the loss object with element i of every tensor it holds removed
Without(self, i) ==
    [f \in DOMAIN self |->
        IF f \in TensorFields(self) /\ self[f] # <<>> THEN Remove(self[f], i) ELSE self[f]]
\* the evaluation named by call, on other inputs
Eval(self, fn, yt, yp, mean) ==
    IF fn = "poisson_loss" THEN poisson_loss(yt, yp) ELSE Loss(self, yt, yp, mean)

\* ---- the negative binomial loss -----------------------------------------------

\* C1: an NB loss built with a dispersion, NB(theta=t), and evaluated with two
\* arguments computes its likelihood with t, clipped to at most 1e6: what the
\* evaluation returns is what the loss returns when t is the dispersion.
C1_ConfiguredTheta ==
    (Called /\ obj.cls = "NB")
        => ret = NB_loss(obj, y_true, y_pred, call.mean, obj.theta)

\* C2: with one entry of y_true missing, at least one observed and every
\* prediction finite, the Poisson loss, the masked NB loss and the masked ZINB
\* loss return what they return on the batch with the missing entry removed
\* from every tensor.
C2_MissingRemoved ==
    (/\ Called
     /\ call.fn = "poisson_loss" \/ (obj.cls \in {"NB", "ZINB"} /\ obj.masking)
     /\ call.mean
     /\ Len(y_true) >= 2
     /\ Cardinality(Missing(y_true)) = 1
     /\ Missing(y_pred) = {}
     /\ ret.kind = "scalar")
        => \A i \in Missing(y_true) :
              ret = Eval(Without(obj, i), call.fn, Remove(y_true, i),
                         Remove(y_pred, i), TRUE)

\* C4: a ZINB loss whose dropout probability is 0 everywhere and whose ridge
\* weight is 0 returns what the NB loss built with the same dispersion, masking
\* and scale factor returns on the same batch.
C4_ZeroPiIsNB ==
    (/\ Called
     /\ obj.cls = "ZINB"
     /\ \A i \in DOMAIN obj.pi : obj.pi[i] = Num(0)
     /\ obj.ridge_lambda = 0
     /\ ret.kind # "raise")
        => ret = NB_call(NB_init(obj.theta, obj.masking, obj.scale_factor, obj.debug),
                         y_true, y_pred, call.mean)

\* C9: when NB.loss reduces (mean=True) it returns the sum of the per-element
\* losses over all positions divided, with masking, by the number of
\* non-missing entries of y_true (1 if there is none) and, without masking, by
\* the number of all positions.
C9_NBReduction ==
    (Called /\ obj.cls = "NB" /\ call.mean /\ ret.kind = "scalar")
        => LET final == NB_call(obj, y_true, y_pred, FALSE).val
               count == IF obj.masking THEN CountValid(y_true) ELSE Len(y_true)
           IN ret.val = divide(reduce_sum(final), count)

\* a masked NB loss has reduced a batch with a missing and an observed entry
C9_Witness ==
    /\ Called
    /\ obj.cls = "NB"
    /\ obj.masking
    /\ call.mean
    /\ Cardinality(Missing(y_true)) = 1
    /\ Len(y_true) = 2
    /\ ret.kind = "scalar"
    /\ ret.val.k = "fin"
    /\ ret.val # LZero

\* C10: when ZINB.loss reduces (mean=True) a batch with finite predictions it
\* returns the sum of its per-element losses divided, with masking, by the
\* number of non-missing entries of y_true as NB.loss does and, without
\* masking, by the number of all positions.
C10_ZINBReduction ==
    (/\ Called
     /\ obj.cls = "ZINB"
     /\ call.mean
     /\ Missing(y_pred) = {}
     /\ ret.kind = "scalar")
        => LET result == ZINB_loss(obj, y_true, y_pred, FALSE).val
               count == IF obj.masking THEN CountValid(y_true) ELSE Len(y_true)
           IN ret.val = divide(reduce_sum(result), count)

\* ---- the variants of the registry ---------------------------------------------

Built == net # NoNet
HeadNames(nt) == {h.name : h \in nt.heads}
HeadNamed(nt, name) == CHOOSE h \in nt.heads : h.name = name

\* the tensors a loss evaluates a likelihood (or the squared error) at, each
\* with the function it is handed to
Means(nt) ==
    CASE nt.loss = "mean_squared_error" ->
            {[t |-> nt.output, via |-> "mean_squared_error"]}
      [] nt.loss = "poisson_loss" -> {[t |-> nt.output, via |-> "poisson_loss"]}
      [] nt.loss \in {"NB", "ZINB"} -> {[t |-> nt.output, via |-> "NB.loss"]}
      [] nt.loss \in {"CombNBLossSimple", "CombNBLossSimpleExtra"} ->
            {[t |-> nt.args.mean1, via |-> "NB.loss"],
             [t |-> nt.args.mean2, via |-> "NB.loss"]}
      [] nt.loss = "CombNBPoissonLossExtra" ->
            {[t |-> nt.output, via |-> "NB.loss"],
             [t |-> nt.args.lambda_poisson, via |-> "poisson_loss"]}

\* the tensors a loss is given as dispersions
Dispersions(nt) ==
    {nt.args[f] : f \in DOMAIN nt.args \cap {"theta", "theta1", "theta2"}}

\* every tensor the loss is given: the model output and the constructor arguments
LossInputs(nt) == {nt.output} \cup {nt.args[f] : f \in DOMAIN nt.args}

\* how many times the size factors are multiplied into a mean before the
\* likelihood is evaluated at it: in the graph, and by NB.loss with its scale_factor
SfTimes(m, nt) ==
    m.t.sf + (IF m.via = "NB.loss" /\ nt.scale_factor = "sf_layer" THEN 1 ELSE 0)

\* the heads a set of heads is computed from, following the inputs of the layers
RECURSIVE Upstream(_, _)
Upstream(nt, S) ==
    LET T == S \cup {h.input : h \in {g \in nt.heads : g.name \in S}}
    IN IF T = S THEN S ELSE Upstream(nt, T)

Probes(self) ==
    LET n == IF "scale_factor" \in DOMAIN self THEN Len(self.scale_factor) ELSE 1
    IN {[y_true |-> yt, y_pred |-> fill(Num(1), n)] : yt \in Tensors({Num(0), Num(1)}, n)}

\* the loss's value depends on the tensor it holds in field f
Reads(self, f) ==
    \E p \in Probes(self) :
        Loss([self EXCEPT ![f] = fill(Num(3), Len(self[f]))], p.y_true, p.y_pred, TRUE)
            # Loss(self, p.y_true, p.y_pred, TRUE)

\* the loss's value depends on y_pred
ReadsPred(self) ==
    \E p \in Probes(self) :
        Loss(self, p.y_true, fill(Num(2), Len(p.y_pred)), TRUE)
            # Loss(self, p.y_true, p.y_pred, TRUE)

\* the tensors held by the loss, apart from the scale factor
Parameters(self) ==
    {f \in TensorFields(self) \ {"scale_factor"} : self[f] # <<>>}

UsedHeads(nt, self) ==
    Upstream(nt, UNION ({nt.args[f].heads : f \in {g \in DOMAIN nt.args : Reads(self, g)}}
                        \cup {IF ReadsPred(self) THEN nt.output.heads ELSE {}}))

\* C3: every variant of the registry excludes the missing entries of y_true from
\* its training loss: on a batch with a missing entry and finite predictions
\* the loss is a finite number, and it is not the loss of the batch with the
\* missing entry taken to be an observed zero.
C3_MissingExcluded ==
    (Built /\ Called /\ call.mean /\ Missing(y_true) # {} /\ Missing(y_pred) = {})
        => /\ ret.kind = "scalar"
           /\ ret.val.k = "fin"
           /\ ret # Loss(obj, _nan2zero(y_true), y_pred, TRUE)

\* C5: in every variant of the registry the heads build_output declares are
\* those its loss requires: every tensor the loss holds is wired to declared
\* heads, and every declared head feeds a tensor the loss reads.
C5_HeadsMatchLoss ==
    (Built /\ ~Called)
        => /\ \A f \in Parameters(obj) :
                 f \in DOMAIN net.args /\ net.args[f].heads \subseteq HeadNames(net)
           /\ net.output.heads \subseteq HeadNames(net)
           /\ \A h \in net.heads : h.name \in UsedHeads(net, obj)

\* C6: in every variant of the registry each mean handed to a Poisson or NB
\* likelihood comes from a head with the MeanAct clip, and each dispersion from
\* heads with a positivity mapping (DispAct or the exponential of a constant).
C6_HeadsActivated ==
    Built
        => /\ \A m \in Means(net) :
                 m.via \in {"NB.loss", "poisson_loss"}
                    => \E h \in m.t.heads : HeadNamed(net, h).act = "MeanAct"
           /\ \A d \in Dispersions(net) :
                 \A h \in d.heads : HeadNamed(net, h).act \in {"DispAct", "theta_exp"}

\* C7: in every variant whose second mean is mean1 * alpha the alpha head keeps
\* alpha in [0, 1] by its activation or its constraint, and the loss does not:
\* it distinguishes a second mean above mean1 from mean1.
C7_AlphaConstrained ==
    (Built /\ ~Called /\ "mean2" \in DOMAIN net.args /\ "alpha" \in net.args.mean2.heads)
        => /\ \/ HeadNamed(net, "alpha").act \in {"sigmoid", "softmax"}
              \/ HeadNamed(net, "alpha").constraint # "none"
           /\ \E p \in Probes(obj) :
                 Loss([obj EXCEPT !.mean2 = [i \in DOMAIN obj.mean1 |->
                                                mul(obj.mean1[i], Num(3))]],
                      p.y_true, p.y_pred, TRUE)
                    # Loss([obj EXCEPT !.mean2 = obj.mean1], p.y_true, p.y_pred, TRUE)

\* C8: in every variant of the registry the size factors are multiplied exactly
\* once into each predicted mean a likelihood is evaluated at, and into no
\* other tensor the loss is given.
C8_SizeFactorOnce ==
    Built
        => /\ \A m \in Means(net) : SfTimes(m, net) = 1
           /\ \A t \in LossInputs(net) \ {m.t : m \in Means(net)} : t.sf = 0

\* ---- the mixture losses -------------------------------------------------------

IsMixture(self) ==
    self.cls \in {"CombNBLoss", "CombNBLossSimple", "CombNBLossSimpleExtra",
                  "CombNBPoissonLossExtra"}

\* C11: each mixture loss reduces with the mean masked with respect to y_true:
\* on a batch with missing entries of y_true and finite predictions the loss is
\* finite, and with one entry missing and another observed it is the loss of
\* the batch without the missing entry.
C11_MixtureMaskedMean ==
    (Called /\ IsMixture(obj) /\ Missing(y_true) # {} /\ Missing(y_pred) = {})
        => /\ ret.kind = "scalar"
           /\ ret.val.k = "fin"
           /\ (Len(y_true) >= 2 /\ Cardinality(Missing(y_true)) = 1)
                 => \A i \in Missing(y_true) :
                       ret = Loss(Without(obj, i), Remove(y_true, i),
                                  Remove(y_pred, i), TRUE)

\* ---- NaN in the per-element values --------------------------------------------

\* the per-element values of an evaluation, before any NaN is mapped or masked
Elements(self, fn, yt, yp) ==
    CASE fn = "poisson_loss" \/ self.cls = "poisson_loss" -> poisson_ret(yt, yp)
      [] self.cls = "NB" ->
            NB_final(self, yt, yp, fill(Num(DefaultTheta), Len(yt)))
      [] self.cls = "ZINB" -> ZINB_result(self, yt, yp)
      [] self.cls = "CombNBLoss" -> CombNBLoss_result(self, yt, yp)
      [] self.cls = "CombNBLossSimple" -> CombNBLossSimple_result(self, yt, yp)
      [] self.cls = "CombNBLossSimpleExtra" ->
            CombNBLossSimpleExtra_result(self, yt, yp)
      [] self.cls = "CombNBPoissonLossExtra" ->
            CombNBPoissonLossExtra_result(self, yt, yp)

\* C12: in every loss of the family, whenever some per-element value of an
\* evaluation is NaN, the reduced loss that the evaluation returns is +infinity.
C12_NaNIsInfinity ==
    (/\ Called
     /\ call.fn \in {"loss", "poisson_loss"}
     /\ call.mean
     /\ ret.kind = "scalar"
     /\ \E i \in DOMAIN y_true : is_nan(Elements(obj, call.fn, y_true, y_pred)[i]))
        => ret.val = LInf

\* C13: NB.loss with mean=False returns a tensor without NaN: a position whose
\* t1 + t2 is NaN holds +infinity, every other position holds its t1 + t2.
C13_NBNoNaN ==
    (Called /\ call.fn = "loss" /\ obj.cls = "NB" /\ ~call.mean /\ ret.kind = "tensor")
        => LET final == Elements(obj, call.fn, y_true, y_pred)
           IN \A i \in DOMAIN y_true :
                 /\ ret.val[i].k # "nan"
                 /\ ret.val[i] = IF final[i].k = "nan" THEN LInf ELSE final[i]

\* an unmasked NB loss has returned the elements of a batch with a missing and
\* an observed entry: +infinity at the one, a finite value at the other
C13_Witness ==
    /\ Called
    /\ call.fn = "loss"
    /\ obj.cls = "NB"
    /\ ~obj.masking
    /\ ~call.mean
    /\ ret.kind = "tensor"
    /\ \E i, j \in DOMAIN y_true :
          /\ is_nan(y_true[i]) /\ ret.val[i] = LInf
          /\ ~is_nan(y_true[j]) /\ ret.val[j].k = "fin" /\ ret.val[j] # LZero

\* C14: every reduced loss of the family returns a scalar that is never NaN:
\* it is a finite sum of likelihood terms, none of them negative, divided by a
\* positive count, or it is +infinity.
C14_NeverNaN ==
    (Called /\ call.fn \in {"loss", "poisson_loss"} /\ call.mean /\ ret.kind = "scalar")
        => /\ ret.val.k \in {"fin", "inf"}
           /\ ret.val.den > 0

\* ---- the numeric utilities ---------------------------------------------------

\* C15: _nelem(x) returns the number of non-missing entries of x, and 1 when
\* every entry of x is missing; it never returns 0.
C15_NelemCount ==
    (Called /\ call.fn = "_nelem")
        => /\ ret.val = (IF Missing(call.x) = DOMAIN call.x
                         THEN 1
                         ELSE Len(call.x) - Cardinality(Missing(call.x)))
           /\ ret.val >= 1

\* _nelem has been applied to a tensor of several entries, all of them missing
C15_Witness ==
    /\ Called
    /\ call.fn = "_nelem"
    /\ Len(call.x) >= 2
    /\ Missing(call.x) = DOMAIN call.x
    /\ ret.val = 1

\* C16: for every non-empty x without missing entries, _reduce_mean(x) is the
\* plain arithmetic mean of x: the sum of all entries divided by their number.
C16_ReduceMeanPlain ==
    (Called /\ call.fn = "_reduce_mean" /\ Missing(call.x) = {})
        => ret.val = divide(reduce_sum(call.x), Len(call.x))

\* _reduce_mean has been applied to two different finite entries and has
\* returned half their sum
C16_Witness ==
    /\ Called
    /\ call.fn = "_reduce_mean"
    /\ Len(call.x) = 2
    /\ call.x[1] # call.x[2]
    /\ \A i \in DOMAIN call.x : call.x[i].k = "fin"
    /\ ret.val.k = "fin"
    /\ ret.val.den = 2

\* ---- the zero-inflated loss --------------------------------------------------

\* C17: in ZINB.loss each element takes the zero branch if and only if its
\* observed count is below 1e-8, that is 0, and the NB branch otherwise (a
\* missing count included); ridge_lambda * pi^2 is added to the branch taken.
C17_ZINBBranches ==
    (Called /\ call.fn = "loss" /\ obj.cls = "ZINB" /\ ~call.mean /\ ret.kind = "tensor")
        => LET nb == NB_call(obj, y_true, y_pred, FALSE).val
               zeroBranch(i) ==
                   ZeroCase(obj.pi[i], mul(y_pred[i], obj.scale_factor[i]),
                            minimum(obj.theta[i], ThetaClip))
               nbBranch(i) == add(nb[i], NegLog1mPi(obj.pi[i]))
               nll(i) ==
                   add(IF y_true[i] = Num(0) THEN zeroBranch(i) ELSE nbBranch(i),
                       Ridge(obj.ridge_lambda, obj.pi[i]))
           IN \A i \in DOMAIN y_true :
                 ret.val[i] = IF nll(i).k = "nan" THEN LInf ELSE nll(i)

\* a ZINB loss with dropout and ridge has returned the elements of a batch with
\* a zero count and a positive count, one branch each
C17_Witness ==
    /\ Called
    /\ call.fn = "loss"
    /\ obj.cls = "ZINB"
    /\ ~call.mean
    /\ obj.ridge_lambda > 0
    /\ ret.kind = "tensor"
    /\ \E i, j \in DOMAIN y_true :
          /\ y_true[i] = Num(0) /\ y_true[j] = Num(1)
          /\ obj.pi[i].v > 0
          /\ ret.val[i].k = "fin" /\ ret.val[j].k = "fin"
          /\ ret.val[i] # ret.val[j]

\* C18: for a batch without missing entries and a dropout probability pi > 0,
\* the reduced ZINB loss with ridge weight L > 0 is the reduced ZINB loss with
\* ridge weight 0 plus the mean over the elements of L * pi^2.
C18_RidgeAdds ==
    (/\ Called
     /\ call.fn = "loss"
     /\ obj.cls = "ZINB"
     /\ call.mean
     /\ obj.ridge_lambda > 0
     /\ \A i \in DOMAIN obj.pi : obj.pi[i].v > 0
     /\ Missing(y_true) = {} /\ Missing(y_pred) = {}
     /\ ret.kind = "scalar")
        => LET plain == ZINB_loss([obj EXCEPT !.ridge_lambda = 0],
                                  y_true, y_pred, FALSE).val
               ridge == [i \in DOMAIN y_true |->
                            Term(<<"ridge", obj.ridge_lambda, obj.pi[i].v>>)]
           IN /\ ret.val = divide(add(reduce_sum(plain), reduce_sum(ridge)),
                                  Len(y_true))
              /\ ret.val # ZINB_loss([obj EXCEPT !.ridge_lambda = 0],
                                     y_true, y_pred, TRUE).val

\* a ZINB loss with dropout and a ridge weight has reduced a batch of two
\* observed counts to a finite value
C18_Witness ==
    /\ Called
    /\ call.fn = "loss"
    /\ obj.cls = "ZINB"
    /\ call.mean
    /\ obj.ridge_lambda > 0
    /\ \A i \in DOMAIN obj.pi : obj.pi[i].v > 0
    /\ Len(y_true) = 2
    /\ Missing(y_true) = {} /\ Missing(y_pred) = {}
    /\ ret.kind = "scalar"
    /\ ret.val.k = "fin"

\* ---- the mixture gate --------------------------------------------------------

\* C19: with the observed counts and both branches fixed, a mixture loss whose
\* gate logit is saturated on the positive side returns the reduced NB loss of
\* branch 1 (mean1, theta1), and one whose gate logit is saturated on the
\* negative side returns the reduced NB loss of branch 2 (mean2, theta2).
C19_GateLimits ==
    (/\ Called
     /\ call.fn = "loss"
     /\ obj.cls \in {"CombNBLoss", "CombNBLossSimple"}
     /\ Missing(y_true) = {} /\ Missing(y_pred) = {}
     /\ ret.kind = "scalar")
        => LET gate == IF obj.cls = "CombNBLoss" THEN obj.pi ELSE y_pred
               mean1 == IF obj.cls = "CombNBLoss" THEN y_pred ELSE obj.mean1
               mean2 == IF obj.cls = "CombNBLoss"
                        THEN [i \in DOMAIN y_pred |-> mul(y_pred[i], obj.alpha[i])]
                        ELSE obj.mean2
           IN /\ (\A i \in DOMAIN gate : gate[i] = Num(GateSat))
                    => ret.val = NB_loss(obj, y_true, mean1, TRUE, obj.theta1).val
              /\ (\A i \in DOMAIN gate : gate[i] = Num(-GateSat))
                    => ret.val = NB_loss(obj, y_true, mean2, TRUE, obj.theta2).val

\* ---- shared loss objects -----------------------------------------------------

\* C20: no step of an evaluation changes the loss object it is called on, and
\* whenever an evaluation completes, whatever other evaluations on the same
\* object are in flight, the value it returns is the value of the loss on that
\* object and the call's arguments, evaluated alone.
C20_Step ==
    /\ obj # NoObj => obj' = obj
    /\ \A e \in Evaluators :
          (Evals[e].pc = "entered" /\ Evals'[e].pc = "done")
              => Rets'[e] = Loss(obj', Evals[e].y_true, Evals[e].y_pred, Evals[e].mean)

C20_Isolated == [][C20_Step]_vars

\* one evaluation has returned a finite scalar while another one, entered with
\* other counts on the same object, is still in flight
C20_Witness ==
    /\ obj # NoObj
    /\ Evals[1].pc = "entered"
    /\ Evals[2].pc = "done"
    /\ Evals[1].y_true # Evals[2].y_true
    /\ Rets[2].kind = "scalar"
    /\ Rets[2].val.k = "fin"

\* ---- the branches of a mixture -------------------------------------------------

\* the loss object restricted to element i of every tensor it holds
Only(self, i) ==
    [f \in DOMAIN self |->
        IF f \in TensorFields(self) /\ self[f] # <<>> THEN <<self[f][i]>> ELSE self[f]]

\* C21: in every mixture loss the values that the log-sum-exp combines are
\* per-element: the combined value of element i is a function of element i
\* alone, the value the loss computes on the batch that holds only element i,
\* and no branch carries a value reduced over the batch.
C21_BranchesPerElement ==
    (/\ Called
     /\ call.fn = "loss"
     /\ IsMixture(obj)
     /\ Missing(y_true) = {} /\ Missing(y_pred) = {}
     /\ ret.kind = "scalar")
        => \A i \in DOMAIN y_true :
              Elements(obj, call.fn, y_true, y_pred)[i]
                  = Elements(Only(obj, i), call.fn, <<y_true[i]>>, <<y_pred[i]>>)[1]

\* ---- the Poisson loss ----------------------------------------------------------

\* C22: poisson_loss returns the sum, over all positions, of the per-element
\* term computed with a missing y replaced by 0, divided by the number of
\* non-missing entries of y.
C22_PoissonReduction ==
    (Called /\ call.fn = "poisson_loss" /\ ret.kind = "scalar")
        => LET y == [i \in DOMAIN y_true |->
                        IF is_nan(y_true[i]) THEN Num(0) ELSE y_true[i]]
               term == [i \in DOMAIN y_true |-> PoissonTerm(y[i], y_pred[i])]
           IN ret.val = divide(reduce_sum(term), CountValid(y_true))

\* poisson_loss has reduced a batch with a missing and an observed entry and
\* finite predictions to a finite value
C22_Witness ==
    /\ Called
    /\ call.fn = "poisson_loss"
    /\ Missing(y_true) # {} /\ Missing(y_true) # DOMAIN y_true
    /\ Missing(y_pred) = {}
    /\ ret.kind = "scalar"
    /\ ret.val.k = "fin"

\* ---- batches without an observed entry -----------------------------------------

\* C23: on a y_true whose entries are all missing and finite predictions, each
\* masked reduction (poisson_loss, NB.loss and ZINB.loss with masking) returns
\* a finite value, the sum of its per-element values divided by 1; and
\* _reduce_mean of an input whose entries are all missing returns 0.
C23_AllMissing ==
    /\ (Called /\ call.fn = "_reduce_mean" /\ Missing(call.x) = DOMAIN call.x)
          => ret.val = LZero
    /\ (/\ Called
        /\ call.fn \in {"loss", "poisson_loss"}
        /\ call.mean
        /\ call.fn = "poisson_loss" \/ (obj.cls \in {"NB", "ZINB"} /\ obj.masking)
        /\ Missing(y_true) = DOMAIN y_true
        /\ Missing(y_pred) = {})
          => LET elements ==
                     CASE call.fn = "poisson_loss" -> poisson_ret(y_true, y_pred)
                       [] obj.cls = "NB" -> NB_call(obj, y_true, y_pred, FALSE).val
                       [] obj.cls = "ZINB" -> ZINB_loss(obj, y_true, y_pred, FALSE).val
             IN /\ ret.kind = "scalar"
                /\ ret.val.k = "fin"
                /\ ret.val = divide(reduce_sum(elements), 1)

\* ---- inference -------------------------------------------------------------------

\* predict has returned without an exception
Predicted == Called /\ call.fn = "predict" /\ ret.kind \in {"adata", "None"}
\* the adata that predict worked on: the copy it returned, or the caller's
Operated == IF ret.kind = "adata" THEN ret.val ELSE adata
\* the model that produced a matrix, and what it was applied to
Producer(x) == x[Len(x)]
Input(x) == SubSeq(x, 1, Len(x) - 1)

\* C24: for every variant of the registry, after predict in mode 'denoise' or
\* 'full' the X of the adata it worked on is the model's reconstruction of the
\* X it was called with, and after predict in mode 'latent' or 'full' its
\* obsm['X_dca'] holds an output of the encoder.
C24_PredictStores ==
    Predicted
        => /\ call.mode \in {"denoise", "full"}
                 => Operated.X = Apply("model", call.adata.X)
           /\ call.mode \in {"latent", "full"}
                 => /\ "X_dca" \in DOMAIN Operated.obsm
                    /\ Producer(Operated.obsm["X_dca"]) = "encoder"

\* C25: after predict in mode 'full', the latent representation in
\* obsm['X_dca'] is the encoder's output on the X that predict was called with.
C25_LatentOfInput ==
    (Predicted /\ call.mode = "full" /\ "X_dca" \in DOMAIN Operated.obsm)
        => Operated.obsm["X_dca"] = Apply("encoder", call.adata.X)

\* C26: after predict with return_info=True, every auxiliary matrix it stored
\* in obsm was computed from the X that predict was called with.
C26_InfoOfInput ==
    (Predicted /\ call.return_info)
        => \A k \in DOMAIN Operated.obsm \ {"X_dca"} :
              Input(Operated.obsm[k]) = call.adata.X

\* C27: predict in mode 'latent' leaves X as it was when predict was called,
\* leaves raw alone, and without return_info adds nothing but obsm['X_dca'].
C27_LatentKeepsX ==
    (Predicted /\ call.mode = "latent")
        => /\ Operated.X = call.adata.X
           /\ Operated.raw = call.adata.raw
           /\ ~call.return_info
                 => /\ DOMAIN Operated.obsm \subseteq {"X_dca"}
                    /\ Operated.var = call.adata.var

\* C28: for every variant of the registry, predict called with a mode other
\* than 'denoise', 'latent' and 'full' raises, and the adata it was given is
\* as it was when predict was called.
C28_UnknownMode ==
    (Called /\ call.fn = "predict" /\ call.mode \notin Modes)
        => /\ ret.kind = "raise"
           /\ adata = call.adata

\* C29: for every variant of the registry, predict with copy=True leaves the
\* caller's adata as it was and, unless it raises, returns an adata that holds
\* what copy=False would have put into the caller's; predict with copy=False
\* returns None, unless it raises, and puts into the caller's adata what
\* copy=True would have returned.
C29_Copy ==
    (Called /\ call.fn = "predict")
        => /\ call.copy
                 => /\ adata = call.adata
                    /\ ret.kind # "raise"
                          => /\ ret.kind = "adata"
                             /\ ret.val = predict(net.cls, call.adata, call.mode,
                                                  call.return_info, FALSE).adata
           /\ (~call.copy /\ ret.kind # "raise")
                 => /\ ret.kind = "None"
                    /\ adata = predict(net.cls, call.adata, call.mode,
                                       call.return_info, TRUE).ret.val

\* predict with copy=True has returned an adata with a reconstruction, a latent
\* representation and auxiliary matrices, and the caller's adata is untouched
C29_Witness ==
    /\ Called
    /\ call.fn = "predict"
    /\ call.copy
    /\ call.return_info
    /\ call.mode = "full"
    /\ ret.kind = "adata"
    /\ ret.val.X # call.adata.X
    /\ "X_dca" \in DOMAIN ret.val.obsm
    /\ DOMAIN ret.val.obsm # {"X_dca"}
    /\ Fresh(adata)

\* C30: for every variant of the registry, when write follows a predict with
\* return_info=True on the same adata, every auxiliary entry that predict
\* stored is written to a file, and every key that write tests for is a key
\* that predict stored.
C30_WriteMatchesPredict ==
    (Called /\ call.fn = "write" /\ call.after.return_info /\ ret.kind = "files")
        => LET stored == {<<"obsm", k>> : k \in DOMAIN call.adata.obsm \ {"X_dca"}}
                           \cup {<<"var", k>> : k \in DOMAIN call.adata.var}
           IN /\ \A e \in stored :
                    \E f \in ret.val :
                       f.key = e[2] /\ f.data = call.adata[e[1]][e[2]]
              /\ \A t \in write_tests(net.cls) : <<t.in, t.test>> \in stored

====
